---- MODULE Spec2Model ----
(***************************************************************************)
(* Schema-change reconciliation of the crm table editor.                   *)
(*                                                                         *)
(* TableInfo (tables/table_info.rs) folds every edit intent into the       *)
(* pending list table_change_events; TableInfo::alter_table hands the      *)
(* list to Repository::alter_table (database/repository.rs), which         *)
(* compiles it to ALTER TABLE statements and runs them in one transaction  *)
(* against the catalog.                                                    *)
(***************************************************************************)
EXTENDS Integers, Sequences, FiniteSets, TLC

(***************************************************************************)
(* Bounds of the model.                                                    *)
(***************************************************************************)
\* a session of arbitrary edits folds an edit into a pending list shorter than this
MaxEvents == 3
\* number of edits in a session of applicable edits
MaxEdits == 4
\* number of events a recording session folds in
MaxFolded == 3
\* number of data change events of one update_table_data call
MaxBatch == 2
\* width of the INTEGER key column (32 in PostgreSQL)
IntegerBits == 2
\* number of columns the create-table form holds
MaxFormColumns == 2
\* the create-table form takes messages while the database holds fewer tables
MaxTables == 2

(***************************************************************************)
(* Value domains.  The original table is the default table of the tests,   *)
(* users(id INTEGER PRIMARY KEY, name TEXT).                               *)
(***************************************************************************)
ColumnNames == {"id", "name", "email"}
DataTypes == {"INTEGER", "TEXT"}
TableNames == {"users", "customers"}
\* a referenced (table, column) pair of a foreign key
References == {"registrations.id", "orders.id"}
None == "-"

\* BTableChangeEvents: one record shape for the nine variants
Event(kind, col, arg) == [kind |-> kind, col |-> col, arg |-> arg]
ChangeTableName(n) == Event("ChangeTableName", None, n)
ChangeColumnDataType(c, t) == Event("ChangeColumnDataType", c, t)
ChangeColumnName(c, n) == Event("ChangeColumnName", c, n)
RemoveColumn(c) == Event("RemoveColumn", c, None)
AddColumn(c, t) == Event("AddColumn", c, t)
AddForeignKey(c, r) == Event("AddForeignKey", c, r)
RemoveForeignKey(c) == Event("RemoveForeignKey", c, None)
AddPrimaryKey(c) == Event("AddPrimaryKey", c, None)
RemovePrimaryKey(c) == Event("RemovePrimaryKey", c, None)

EventsOver(names) ==
    {ChangeTableName(n) : n \in TableNames}
    \cup {ChangeColumnDataType(c, t) : c \in names, t \in DataTypes}
    \cup {ChangeColumnName(c, n) : c \in names, n \in names}
    \cup {RemoveColumn(c) : c \in names}
    \cup {AddColumn(c, t) : c \in names, t \in DataTypes}
    \cup {AddForeignKey(c, r) : c \in names, r \in References}
    \cup {RemoveForeignKey(c) : c \in names}
    \cup {AddPrimaryKey(c) : c \in names}
    \cup {RemovePrimaryKey(c) : c \in names}

Events == EventsOver(ColumnNames)

\* a recording session also names a column no snapshot and no edit knows
EngineColumnNames == ColumnNames \cup {"phone"}
EngineEvents == EventsOver(EngineColumnNames)

(***************************************************************************)
(* Vec helpers.                                                            *)
(***************************************************************************)
\* Vec::remove(i)
RemoveAt(s, i) == SubSeq(s, 1, i - 1) \o SubSeq(s, i + 1, Len(s))
\* Vec::push
Push(s, x) == Append(s, x)
\* Iterator::position, 0 for Option::None
Position(s, Test(_)) ==
    IF \E i \in 1..Len(s) : Test(s[i])
    THEN CHOOSE i \in 1..Len(s) : Test(s[i]) /\ \A j \in 1..(i - 1) : ~Test(s[j])
    ELSE 0
Range(s) == {s[i] : i \in 1..Len(s)}

VARIABLES
    table_name,            \* TableInfo.table_name
    columns_info,          \* TableInfo.columns_info, the last fetched snapshot
    table_change_events,   \* TableInfo.table_change_events, the pending list
    catalog,               \* the committed schema of the edited table
    pc,                    \* position of TableInfo::alter_table
    txn,                   \* the open transaction's view of the table
    queries,               \* statements of the batch not yet executed
    res,                   \* result of the last Repository::alter_table
    before,                \* the catalog when the last transaction began
    batch,                 \* the statement list the last transaction compiled
    lit,                   \* the catalog had every edit been applied literally
    edits,                 \* applicable edits folded in so far
    applicable,            \* the session's caller issues only applicable edits
    recording,             \* the session keeps the history of its edits
    folded,                \* the events folded in so far, when recording
    trail,                 \* trail[i]: the pending list before folded[i]
    rows,                  \* the committed rows of the data table, by key
    data_txn,              \* the open data transaction's view of the rows
    data_events,           \* the data change events not yet executed
    data_log,              \* the events the open transaction executed, each
                           \* with the rows it saw and the rows it left
    data_pc,               \* position of Repository::update_table_data
    create_table_input,    \* CreateTableFormUI.create_table_input
    database,              \* the tables of the database, as created
    tables_general_info,   \* Tables.tables_general_info
    form_pc                \* position of Tables::add_table

engine_vars == <<recording, folded, trail>>
data_vars == <<rows, data_txn, data_events, data_log, data_pc>>
form_vars == <<create_table_input, database, tables_general_info, form_pc>>

vars == <<table_name, columns_info, table_change_events, catalog, pc, txn,
          queries, res, before, batch, lit, edits, applicable,
          recording, folded, trail, rows, data_txn, data_events, data_log, data_pc,
          create_table_input, database, tables_general_info, form_pc>>

(***************************************************************************)
(* find_existing_* of TableInfo: index of the first matching entry.        *)
(***************************************************************************)
find_existing_remove_primary_key_event(evs, column_name) ==
    LET T(e) == e.kind = "RemovePrimaryKey" /\ e.col = column_name
    IN Position(evs, T)

find_existing_add_primary_key_event(evs, column_name) ==
    LET T(e) == e.kind = "AddPrimaryKey" /\ e.col = column_name
    IN Position(evs, T)

find_existing_add_foreign_key_event(evs, column_name) ==
    LET T(e) == e.kind = "AddForeignKey" /\ e.col = column_name
    IN Position(evs, T)

find_existing_remove_foreign_key_event(evs, column_name) ==
    LET T(e) == e.kind = "RemoveForeignKey" /\ e.col = column_name
    IN Position(evs, T)

\* matches on the modified (new) name of a rename entry
find_existing_rename_column_event(evs, column_name) ==
    LET T(e) == e.kind = "ChangeColumnName" /\ e.arg = column_name
    IN Position(evs, T)

find_existing_remove_column_event(evs, column_name) ==
    LET T(e) == e.kind = "RemoveColumn" /\ e.col = column_name
    IN Position(evs, T)

find_existing_add_column_event(evs, column_name) ==
    LET T(e) == e.kind = "AddColumn" /\ e.col = column_name
    IN Position(evs, T)

find_existing_change_data_type_column_event(evs, column_name) ==
    LET T(e) == e.kind = "ChangeColumnDataType" /\ e.col = column_name
    IN Position(evs, T)

find_existing_change_table_name_event(evs) ==
    LET T(e) == e.kind = "ChangeTableName"
    IN Position(evs, T)

\* columns_info.iter().find(|column| column.name == name): 0 for None
FindColumn(name) ==
    LET T(col) == col.name = name
    IN Position(columns_info, T)

(***************************************************************************)
(* The handlers of TableInfo::add_table_change_event.  Each maps the       *)
(* pending list to the next pending list.                                  *)
(***************************************************************************)
\* handle_add_column that never looks for a pending removal
handle_add_column_appending(evs, column_name, data_type) ==
    Push(evs, AddColumn(column_name, data_type))

handle_add_column(evs, column_name, data_type) ==
    LET i == find_existing_remove_column_event(evs, column_name) IN
    IF i # 0
    THEN LET k == FindColumn(evs[i].col) IN
         IF k # 0
         THEN IF data_type = columns_info[k].datatype
              THEN RemoveAt(evs, i)
              ELSE Push(RemoveAt(evs, i), ChangeColumnDataType(column_name, data_type))
         ELSE evs
    ELSE Push(evs, AddColumn(column_name, data_type))

\* handle_change_table_name that pushes without removing the pending entry
handle_change_table_name_keeping(evs, new_table_name) ==
    Push(evs, ChangeTableName(new_table_name))


handle_change_table_name(evs, new_table_name) ==
    LET i == find_existing_change_table_name_event(evs) IN
    IF i # 0
    THEN IF new_table_name = table_name
         THEN RemoveAt(evs, i)
         ELSE Push(RemoveAt(evs, i), ChangeTableName(new_table_name))
    ELSE Push(evs, ChangeTableName(new_table_name))

\* handle_change_column_datatype that never looks for a pending type change
handle_change_column_datatype_blind(evs, column_name, data_type) ==
    LET j == find_existing_add_column_event(evs, column_name) IN
    IF j # 0
    THEN IF evs[j].arg # data_type
         THEN Push(RemoveAt(evs, j), AddColumn(column_name, data_type))
         ELSE evs
    ELSE Push(evs, ChangeColumnDataType(column_name, data_type))

\* handle_change_column_datatype that never looks for a pending addition
handle_change_column_datatype_unaware(evs, column_name, data_type) ==
    LET i == find_existing_change_data_type_column_event(evs, column_name) IN
    IF i # 0
    THEN LET k == FindColumn(column_name) IN
         IF k # 0 /\ columns_info[k].datatype = data_type
         THEN RemoveAt(evs, i)
         ELSE Push(RemoveAt(evs, i), ChangeColumnDataType(column_name, data_type))
    ELSE Push(evs, ChangeColumnDataType(column_name, data_type))

handle_change_column_datatype(evs, column_name, data_type) ==
    LET i == find_existing_change_data_type_column_event(evs, column_name)
        j == find_existing_add_column_event(evs, column_name)
    IN
    IF i # 0
    THEN LET k == FindColumn(column_name) IN
         IF k # 0 /\ columns_info[k].datatype = data_type
         THEN RemoveAt(evs, i)
         ELSE Push(RemoveAt(evs, i), ChangeColumnDataType(column_name, data_type))
    ELSE IF j # 0
    THEN IF evs[j].arg # data_type
         THEN Push(RemoveAt(evs, j), AddColumn(column_name, data_type))
         ELSE evs
    ELSE Push(evs, ChangeColumnDataType(column_name, data_type))

\* update_existing_rename_event that leaves the entry it supersedes
update_existing_rename_event_keeping(evs, event_index, new_column_name) ==
    LET original_column_name == evs[event_index].col
    IN IF original_column_name # new_column_name
       THEN Push(evs, ChangeColumnName(original_column_name, new_column_name))
       ELSE evs

update_existing_rename_event(evs, event_index, new_column_name) ==
    LET original_column_name == evs[event_index].col
        pushed == IF original_column_name # new_column_name
                  THEN Push(evs, ChangeColumnName(original_column_name, new_column_name))
                  ELSE evs
    IN RemoveAt(pushed, event_index)

update_existing_add_column_event(evs, event_index, column_name, new_column_name) ==
    handle_add_column(RemoveAt(evs, event_index), new_column_name, evs[event_index].arg)

\* rename_existing_datatype_change_event that pushes without removing
rename_existing_datatype_change_event_keeping(evs, column_name, new_column_name) ==
    LET i == find_existing_change_data_type_column_event(evs, column_name) IN
    IF i # 0
    THEN Push(evs, ChangeColumnDataType(new_column_name, evs[i].arg))
    ELSE evs

\* rename_existing_datatype_change_event that re-keys the entry where it is
rename_existing_datatype_change_event_in_place(evs, column_name, new_column_name) ==
    LET i == find_existing_change_data_type_column_event(evs, column_name) IN
    IF i # 0
    THEN [evs EXCEPT ![i] = ChangeColumnDataType(new_column_name, evs[i].arg)]
    ELSE evs

rename_existing_datatype_change_event(evs, column_name, new_column_name) ==
    LET i == find_existing_change_data_type_column_event(evs, column_name) IN
    IF i # 0
    THEN Push(RemoveAt(evs, i), ChangeColumnDataType(new_column_name, evs[i].arg))
    ELSE evs

\* handle_change_column_name without the early return for equal names
handle_change_column_name_unguarded(evs, column_name, new_column_name) ==
    LET e1 == rename_existing_datatype_change_event(evs, column_name, new_column_name)
        i == find_existing_rename_column_event(e1, column_name)
        j == find_existing_add_column_event(e1, column_name)
        e2 == IF i # 0
              THEN update_existing_rename_event(e1, i, new_column_name)
              ELSE IF j # 0
              THEN update_existing_add_column_event(e1, j, column_name, new_column_name)
              ELSE Push(e1, ChangeColumnName(column_name, new_column_name))
        p == find_existing_add_primary_key_event(e2, column_name)
    IN IF p # 0
       THEN Push(RemoveAt(e2, p), AddPrimaryKey(new_column_name))
       ELSE e2

handle_change_column_name(evs, column_name, new_column_name) ==
    IF column_name = new_column_name
    THEN evs
    ELSE
      LET e1 == rename_existing_datatype_change_event(evs, column_name, new_column_name)
          i == find_existing_rename_column_event(e1, column_name)
          j == find_existing_add_column_event(e1, column_name)
          e2 == IF i # 0
                THEN update_existing_rename_event(e1, i, new_column_name)
                ELSE IF j # 0
                THEN update_existing_add_column_event(e1, j, column_name, new_column_name)
                ELSE Push(e1, ChangeColumnName(column_name, new_column_name))
          p == find_existing_add_primary_key_event(e2, column_name)
      IN IF p # 0
         THEN Push(RemoveAt(e2, p), AddPrimaryKey(new_column_name))
         ELSE e2

\* handle_remove_column that records the removal of a column only pending
handle_remove_column_recording(evs, column_name) ==
    Push(evs, RemoveColumn(column_name))

handle_remove_column(evs, column_name) ==
    LET p == find_existing_add_primary_key_event(evs, column_name)
        e1 == IF p # 0 THEN RemoveAt(evs, p) ELSE evs
        f == find_existing_add_foreign_key_event(e1, column_name)
        e2 == IF f # 0 THEN RemoveAt(e1, f) ELSE e1
        a == find_existing_add_column_event(e2, column_name)
        d == find_existing_change_data_type_column_event(e2, column_name)
        r == find_existing_rename_column_event(e2, column_name)
    IN
    IF a # 0
    THEN RemoveAt(e2, a)
    ELSE IF d # 0
    THEN Push(RemoveAt(e2, d), RemoveColumn(column_name))
    ELSE IF r # 0
    THEN Push(RemoveAt(e2, r), RemoveColumn(e2[r].col))
    ELSE Push(e2, RemoveColumn(column_name))

\* handle_add_primary_key that never looks for a pending removal
handle_add_primary_key_blind(evs, column_name) ==
    Push(evs, AddPrimaryKey(column_name))

handle_add_primary_key(evs, column_name) ==
    LET i == find_existing_remove_primary_key_event(evs, column_name) IN
    IF i # 0
    THEN RemoveAt(evs, i)
    ELSE Push(evs, AddPrimaryKey(column_name))

handle_remove_primary_key(evs, column_name) ==
    LET i == find_existing_add_primary_key_event(evs, column_name) IN
    IF i # 0
    THEN RemoveAt(evs, i)
    ELSE Push(evs, RemovePrimaryKey(column_name))

handle_add_foreign_key(evs, column_name, reference) ==
    LET i == find_existing_add_foreign_key_event(evs, column_name)
        j == find_existing_remove_foreign_key_event(evs, column_name)
    IN
    IF i # 0
    THEN Push(RemoveAt(evs, i), AddForeignKey(column_name, reference))
    ELSE IF j # 0
    THEN RemoveAt(evs, j)
    ELSE Push(evs, AddForeignKey(column_name, reference))

handle_remove_foreign_key(evs, column_name) ==
    LET i == find_existing_add_foreign_key_event(evs, column_name) IN
    IF i # 0
    THEN RemoveAt(evs, i)
    ELSE Push(evs, RemoveForeignKey(column_name))

\* the match of TableInfo::add_table_change_event
add_table_change_event(evs, e) ==
    CASE e.kind = "ChangeTableName" -> handle_change_table_name(evs, e.arg)
      [] e.kind = "ChangeColumnDataType" -> handle_change_column_datatype(evs, e.col, e.arg)
      [] e.kind = "ChangeColumnName" -> handle_change_column_name(evs, e.col, e.arg)
      [] e.kind = "RemoveColumn" -> handle_remove_column(evs, e.col)
      [] e.kind = "AddColumn" -> handle_add_column(evs, e.col, e.arg)
      [] e.kind = "AddForeignKey" -> handle_add_foreign_key(evs, e.col, e.arg)
      [] e.kind = "RemoveForeignKey" -> handle_remove_foreign_key(evs, e.col)
      [] e.kind = "AddPrimaryKey" -> handle_add_primary_key(evs, e.col)
      [] e.kind = "RemovePrimaryKey" -> handle_remove_primary_key(evs, e.col)


(***************************************************************************)
(* The catalog: the edited table as the database holds it.                 *)
(*   tname  the table's name                                               *)
(*   cols   its columns, <<[name, datatype]>>, in declaration order         *)
(*   pk     its primary-key constraint [conname, cols]; cols = <<>> when   *)
(*          the table has none                                             *)
(*   fks    its foreign-key constraints, a set of [conname, col, ref]      *)
(* Constraint names are tuples: <<"pkey", t>> is t_pkey as CREATE TABLE    *)
(* names it, <<"pk", t>> is pk_t and <<"fk", t, c>> is fk_t_c.             *)
(***************************************************************************)
NoPk == [conname |-> <<>>, cols |-> <<>>]

\* users(id INTEGER PRIMARY KEY, name TEXT): default_table_in of the tests
DefaultTable ==
    [tname |-> "users",
     cols |-> <<[name |-> "id", datatype |-> "INTEGER"],
                [name |-> "name", datatype |-> "TEXT"]>>,
     pk |-> [conname |-> <<"pkey", "users">>, cols |-> <<"id">>],
     fks |-> {}]

\* the default table after a committed AddForeignKey(name, registrations.id)
ReferencingTable ==
    [DefaultTable EXCEPT !.fks = {[conname |-> <<"fk", "users", "name">>,
                                   col |-> "name",
                                   ref |-> "registrations.id"]}]

ColNames(cat) == {cat.cols[i].name : i \in 1..Len(cat.cols)}
ConNames(cat) ==
    {fk.conname : fk \in cat.fks}
    \cup (IF cat.pk.cols # <<>> THEN {cat.pk.conname} ELSE {})

\* what an observer of the catalog sees: names, types, key columns, references
Schema(cat) ==
    [tname |-> cat.tname,
     cols |-> {[name |-> cat.cols[i].name,
                datatype |-> cat.cols[i].datatype,
                pk |-> cat.cols[i].name \in Range(cat.pk.cols),
                fks |-> {fk.ref : fk \in {g \in cat.fks : g.col = cat.cols[i].name}}]
               : i \in 1..Len(cat.cols)}]

\* Repository::get_primary_key_constraint: conname, <<>> for None
get_primary_key_constraint(cat, tname) ==
    IF cat.tname = tname THEN cat.pk.conname ELSE <<>>

\* BColumn::to_column: the constraints of a fetched column
ToColumn(cat, c) ==
    [name |-> c.name,
     datatype |-> c.datatype,
     constraints |->
        (IF c.name \in Range(cat.pk.cols) THEN {<<"PrimaryKey">>} ELSE {})
        \cup {<<"ForeignKey", fk.ref>> : fk \in {g \in cat.fks : g.col = c.name}}]

\* Repository::get_columns_info through TableInfo::set_table_info: the rows of
\* the table of that name, none when no table has it
set_table_info(cat, tname) ==
    IF cat.tname = tname
    THEN [i \in 1..Len(cat.cols) |-> ToColumn(cat, cat.cols[i])]
    ELSE <<>>

(***************************************************************************)
(* Statements, as Repository::alter_table formats them.                    *)
(***************************************************************************)
Stmt(op, table, col, arg, con, cols) ==
    [op |-> op, table |-> table, col |-> col, arg |-> arg, con |-> con, cols |-> cols]

RenameTo(t, n) == Stmt("RENAME TO", t, None, n, <<>>, <<>>)
AlterColumnType(t, c, ty) == Stmt("ALTER COLUMN TYPE", t, c, ty, <<>>, <<>>)
RenameColumnTo(t, c, n) == Stmt("RENAME COLUMN", t, c, n, <<>>, <<>>)
AddColumnStmt(t, c, ty) == Stmt("ADD COLUMN", t, c, ty, <<>>, <<>>)
DropColumn(t, c) == Stmt("DROP COLUMN", t, c, None, <<>>, <<>>)
AddConstraintFk(t, c, r) == Stmt("ADD CONSTRAINT FOREIGN KEY", t, c, r, <<"fk", t, c>>, <<>>)
DropConstraintIfExists(t, c) == Stmt("DROP CONSTRAINT IF EXISTS", t, c, None, <<"fk", t, c>>, <<>>)
DropConstraint(t, con) == Stmt("DROP CONSTRAINT", t, None, None, con, <<>>)
AddConstraintPk(t, cols) == Stmt("ADD CONSTRAINT PRIMARY KEY", t, None, None, <<"pk", t>>, cols)

(***************************************************************************)
(* Repository::alter_table, the compilation: the loop over the events      *)
(* carries current_table_name, primary_key_columns,                        *)
(* run_drop_primary_constraint_query and queries.                          *)
(***************************************************************************)
\* the ChangeTableName arm with the statement put at the head of the list
CompileChangeTableNameFirst(st, new_name) ==
    [st EXCEPT !.queries = <<RenameTo(st.current_table_name, new_name)>> \o @,
               !.current_table_name = new_name]

\* the ChangeTableName arm of the loop
CompileChangeTableName(st, new_name) ==
    [st EXCEPT !.queries = Push(@, RenameTo(st.current_table_name, new_name)),
               !.current_table_name = new_name]

\* the other arms of the loop
CompileEvent(st, e) ==
    CASE e.kind = "ChangeTableName" -> CompileChangeTableName(st, e.arg)
      [] e.kind = "ChangeColumnDataType" ->
           [st EXCEPT !.queries = Push(@, AlterColumnType(st.current_table_name, e.col, e.arg))]
      [] e.kind = "ChangeColumnName" ->
           [st EXCEPT !.queries = Push(@, RenameColumnTo(st.current_table_name, e.col, e.arg))]
      [] e.kind = "AddColumn" ->
           [st EXCEPT !.queries = Push(@, AddColumnStmt(st.current_table_name, e.col, e.arg))]
      [] e.kind = "RemoveColumn" ->
           LET T(x) == x = e.col
               i == Position(st.primary_key_columns, T)
               st1 == IF i # 0
                      THEN [st EXCEPT !.run_drop = FALSE,
                                      !.primary_key_columns = RemoveAt(@, i)]
                      ELSE st
           IN [st1 EXCEPT !.queries = Push(@, DropColumn(st.current_table_name, e.col))]
      [] e.kind = "AddForeignKey" ->
           [st EXCEPT !.queries = Push(@, AddConstraintFk(st.current_table_name, e.col, e.arg))]
      [] e.kind = "RemoveForeignKey" ->
           [st EXCEPT !.queries = Push(@, DropConstraintIfExists(st.current_table_name, e.col))]
      [] e.kind = "AddPrimaryKey" ->
           [st EXCEPT !.primary_key_columns = Push(@, e.col)]
      [] e.kind = "RemovePrimaryKey" ->
           LET T(x) == x = e.col
               i == Position(st.primary_key_columns, T)
           IN IF i # 0
              THEN [st EXCEPT !.primary_key_columns = RemoveAt(@, i)]
              ELSE st

RECURSIVE CompileLoop(_, _)
CompileLoop(st, evs) ==
    IF evs = <<>> THEN st ELSE CompileLoop(CompileEvent(st, Head(evs)), Tail(evs))

\* the primary-key handling that drops the constraint whenever one exists
PrimaryKeyQueriesAlwaysDropping(st, cat, tname, initial_primary_key_column_names) ==
    IF initial_primary_key_column_names # st.primary_key_columns
    THEN LET conname == get_primary_key_constraint(cat, tname)
             drop == IF conname # <<>>
                     THEN <<DropConstraint(st.current_table_name, conname)>>
                     ELSE <<>>
             add == IF st.primary_key_columns # <<>>
                    THEN <<AddConstraintPk(st.current_table_name, st.primary_key_columns)>>
                    ELSE <<>>
         IN drop \o add
    ELSE <<>>

\* "Handle primary key changes separately"
PrimaryKeyQueries(st, cat, tname, initial_primary_key_column_names) ==
    IF initial_primary_key_column_names # st.primary_key_columns
    THEN LET conname == get_primary_key_constraint(cat, tname)
             drop == IF st.run_drop /\ conname # <<>>
                     THEN <<DropConstraint(st.current_table_name, conname)>>
                     ELSE <<>>
             add == IF st.primary_key_columns # <<>>
                    THEN <<AddConstraintPk(st.current_table_name, st.primary_key_columns)>>
                    ELSE <<>>
         IN drop \o add
    ELSE <<>>

\* the statement list of Repository::alter_table(tname, evs, initial pk names),
\* cat being the committed catalog its constraint lookup reads
CompileQueries(cat, tname, evs, initial_primary_key_column_names) ==
    LET st0 == [current_table_name |-> tname,
                primary_key_columns |-> initial_primary_key_column_names,
                run_drop |-> TRUE,
                queries |-> <<>>]
        st == CompileLoop(st0, evs)
    IN st.queries \o PrimaryKeyQueries(st, cat, tname, initial_primary_key_column_names)

\* TableInfo::alter_table: names of the snapshot's primary-key columns
primary_key_column_names(cols) ==
    LET Keep(c) == <<"PrimaryKey">> \in c.constraints
    IN [i \in 1..Len(SelectSeq(cols, Keep)) |-> SelectSeq(cols, Keep)[i].name]

(***************************************************************************)
(* The database executing one statement inside the transaction.            *)
(***************************************************************************)
NoDuplicates(s) == \A i, j \in 1..Len(s) : s[i] = s[j] => i = j

\* the statement raises no error against the transaction's view
StmtOk(q, cat) ==
    /\ q.table = cat.tname
    /\ CASE q.op = "RENAME TO" -> q.arg # cat.tname
         [] q.op = "ALTER COLUMN TYPE" -> q.col \in ColNames(cat)
         [] q.op = "RENAME COLUMN" -> q.col \in ColNames(cat) /\ q.arg \notin ColNames(cat)
         [] q.op = "ADD COLUMN" -> q.col \notin ColNames(cat)
         [] q.op = "DROP COLUMN" -> q.col \in ColNames(cat)
         [] q.op = "ADD CONSTRAINT FOREIGN KEY" ->
              q.col \in ColNames(cat) /\ q.con \notin ConNames(cat)
         [] q.op = "DROP CONSTRAINT IF EXISTS" -> TRUE
         [] q.op = "DROP CONSTRAINT" -> q.con \in ConNames(cat)
         [] q.op = "ADD CONSTRAINT PRIMARY KEY" ->
              /\ cat.pk.cols = <<>>
              /\ q.con \notin ConNames(cat)
              /\ Range(q.cols) \subseteq ColNames(cat)
              /\ NoDuplicates(q.cols)

RenameIn(s, old, new) == [i \in 1..Len(s) |-> IF s[i] = old THEN new ELSE s[i]]

DropNamed(cat, con) ==
    [cat EXCEPT !.fks = {fk \in @ : fk.conname # con},
                !.pk = IF @.cols # <<>> /\ @.conname = con THEN NoPk ELSE @]

\* the transaction's view after the statement
StmtEffect(q, cat) ==
    CASE q.op = "RENAME TO" -> [cat EXCEPT !.tname = q.arg]
      [] q.op = "ALTER COLUMN TYPE" ->
           [cat EXCEPT !.cols = [i \in 1..Len(@) |->
                IF @[i].name = q.col THEN [@[i] EXCEPT !.datatype = q.arg] ELSE @[i]]]
      [] q.op = "RENAME COLUMN" ->
           [cat EXCEPT !.cols = [i \in 1..Len(@) |->
                            IF @[i].name = q.col THEN [@[i] EXCEPT !.name = q.arg] ELSE @[i]],
                       !.pk = [@ EXCEPT !.cols = RenameIn(@, q.col, q.arg)],
                       !.fks = {IF fk.col = q.col THEN [fk EXCEPT !.col = q.arg] ELSE fk
                                : fk \in @}]
      [] q.op = "ADD COLUMN" ->
           [cat EXCEPT !.cols = Push(@, [name |-> q.col, datatype |-> q.arg])]
      [] q.op = "DROP COLUMN" ->
           LET Keep(c) == c.name # q.col IN
           [cat EXCEPT !.cols = SelectSeq(@, Keep),
                       !.pk = IF q.col \in Range(@.cols) THEN NoPk ELSE @,
                       !.fks = {fk \in @ : fk.col # q.col}]
      [] q.op = "ADD CONSTRAINT FOREIGN KEY" ->
           [cat EXCEPT !.fks = @ \cup {[conname |-> q.con, col |-> q.col, ref |-> q.arg]}]
      [] q.op = "DROP CONSTRAINT IF EXISTS" -> DropNamed(cat, q.con)
      [] q.op = "DROP CONSTRAINT" -> DropNamed(cat, q.con)
      [] q.op = "ADD CONSTRAINT PRIMARY KEY" ->
           [cat EXCEPT !.pk = [conname |-> q.con, cols |-> q.cols]]

\* a whole batch in one transaction: every statement, or nothing
RECURSIVE RunAll(_, _)
RunAll(qs, cat) ==
    IF qs = <<>> THEN [ok |-> TRUE, cat |-> cat]
    ELSE IF StmtOk(Head(qs), cat) THEN RunAll(Tail(qs), StmtEffect(Head(qs), cat))
    ELSE [ok |-> FALSE, cat |-> cat]

ApplyBatch(qs, cat) == IF RunAll(qs, cat).ok THEN RunAll(qs, cat).cat ELSE cat


(***************************************************************************)
(* Literal replay: each edit compiled on its own and run as one batch      *)
(* against the schema as edited so far.                                    *)
(***************************************************************************)
Literal(e, l) == ApplyBatch(CompileQueries(l, l.tname, <<e>>, l.pk.cols), l)

HasFk(l, c) == \E fk \in l.fks : fk.col = c

\* the edit makes sense for the schema as edited so far; renaming a table
\* or a column to the name it has is an edit that changes nothing
Applicable(e, l) ==
    CASE e.kind = "ChangeTableName" -> TRUE
      [] e.kind = "ChangeColumnDataType" -> e.col \in ColNames(l)
      [] e.kind = "ChangeColumnName" ->
           e.col \in ColNames(l) /\ (e.arg = e.col \/ e.arg \notin ColNames(l))
      [] e.kind = "RemoveColumn" -> e.col \in ColNames(l)
      [] e.kind = "AddColumn" -> e.col \notin ColNames(l)
      [] e.kind = "AddForeignKey" -> e.col \in ColNames(l) /\ ~HasFk(l, e.col)
      [] e.kind = "RemoveForeignKey" -> e.col \in ColNames(l) /\ HasFk(l, e.col)
      [] e.kind = "AddPrimaryKey" -> e.col \in ColNames(l) /\ e.col \notin Range(l.pk.cols)
      [] e.kind = "RemovePrimaryKey" -> e.col \in Range(l.pk.cols)

(***************************************************************************)
(* The create-table form (CreateTableFormUI) and Tables::add_table.  A     *)
(* table input is [table_name, columns]; a column is [name, datatype,      *)
(* constraints], constraints being a list of <<"PrimaryKey">> and          *)
(* <<"ForeignKey", table, column>> markers.                                *)
(***************************************************************************)
PrimaryKey == <<"PrimaryKey">>
ForeignKey(rt, rc) == <<"ForeignKey", rt, rc>>
IsPrimaryKey(constraint) == constraint = PrimaryKey
IsForeignKey(constraint) == constraint[1] = "ForeignKey"

\* what the user types and picks in the form
FormColumnNames == {"id", "name"}
FormTableNames == {"users", "products"}
FormReferences == {<<"users", "id">>, <<"orders", "id">>}

\* BColumn::default() and BTableIn::default()
BColumnDefault == [name |-> "", datatype |-> "TEXT", constraints |-> <<>>]
BTableInDefault == [table_name |-> "", columns |-> <<>>]

\* the column ShowOrRemoveCreateTableForm and add_table write
IdColumn == [name |-> "id", datatype |-> "INTEGER", constraints |-> <<PrimaryKey>>]

\* the table the database holds at the start, as a created table
UsersTable ==
    [table_name |-> "users",
     columns |-> <<IdColumn, [name |-> "name", datatype |-> "TEXT", constraints |-> <<>>]>>]

\* the form takes messages while the database holds fewer tables than MaxTables
FormOpen == form_pc = "form" /\ Cardinality(database) < MaxTables

FormUnchanged == UNCHANGED <<database, tables_general_info, form_pc>>

TableInfoAndDataUnchanged ==
    UNCHANGED <<table_name, columns_info, table_change_events, catalog, pc, txn,
                queries, res, before, batch, lit, edits, applicable, engine_vars,
                data_vars>>

\* update() on a column of the form, when the index is in range
UpdateColumn(index, column) ==
    create_table_input' =
        IF index \in 1..Len(create_table_input.columns)
        THEN [create_table_input EXCEPT !.columns[index] = column]
        ELSE create_table_input

FormAddColumn ==
    /\ FormOpen
    /\ Len(create_table_input.columns) < MaxFormColumns
    /\ create_table_input' = [create_table_input EXCEPT !.columns = Push(@, BColumnDefault)]
    /\ FormUnchanged
    /\ TableInfoAndDataUnchanged

FormRemoveColumn(index) ==
    /\ FormOpen
    /\ create_table_input' =
          IF index \in 1..Len(create_table_input.columns)
          THEN [create_table_input EXCEPT !.columns = RemoveAt(@, index)]
          ELSE create_table_input
    /\ FormUnchanged
    /\ TableInfoAndDataUnchanged

UpdateColumnName(index, input) ==
    /\ FormOpen
    /\ UpdateColumn(index, [create_table_input.columns[index] EXCEPT !.name = input])
    /\ FormUnchanged
    /\ TableInfoAndDataUnchanged

UpdateColumnType(index, input) ==
    /\ FormOpen
    /\ UpdateColumn(index, [create_table_input.columns[index] EXCEPT !.datatype = input])
    /\ FormUnchanged
    /\ TableInfoAndDataUnchanged

\* the SetOrRemovePrimaryKey arm without the look for an existing marker
set_primary_key_always(constraints) == Push(constraints, PrimaryKey)

\* the SetOrRemovePrimaryKey arm: the constraints of the column afterwards
set_or_remove_primary_key(constraints) ==
    LET existing_index == Position(constraints, IsPrimaryKey)
    IN IF existing_index # 0
       THEN RemoveAt(constraints, existing_index)
       ELSE Push(constraints, PrimaryKey)

SetOrRemovePrimaryKey(index) ==
    /\ FormOpen
    /\ UpdateColumn(index, [create_table_input.columns[index] EXCEPT
                              !.constraints = set_or_remove_primary_key(@)])
    /\ FormUnchanged
    /\ TableInfoAndDataUnchanged

\* the AddForeignKey arm: the constraints of the column afterwards
add_foreign_key(constraints, rt, rc) ==
    LET existing_index == Position(constraints, IsForeignKey)
    IN IF existing_index # 0
       THEN Push(RemoveAt(constraints, existing_index), ForeignKey(rt, rc))
       ELSE Push(constraints, ForeignKey(rt, rc))

FormAddForeignKey(index, rt, rc) ==
    /\ FormOpen
    /\ UpdateColumn(index, [create_table_input.columns[index] EXCEPT
                              !.constraints = add_foreign_key(@, rt, rc)])
    /\ FormUnchanged
    /\ TableInfoAndDataUnchanged

\* the RemoveForeignKey arm: the constraints of the column afterwards
remove_foreign_key(constraints) ==
    LET existing_index == Position(constraints, IsForeignKey)
    IN IF existing_index # 0 THEN RemoveAt(constraints, existing_index) ELSE constraints

FormRemoveForeignKey(index) ==
    /\ FormOpen
    /\ UpdateColumn(index, [create_table_input.columns[index] EXCEPT
                              !.constraints = remove_foreign_key(@)])
    /\ FormUnchanged
    /\ TableInfoAndDataUnchanged

UpdateTableName(input) ==
    /\ FormOpen
    /\ create_table_input' = [create_table_input EXCEPT !.table_name = input]
    /\ FormUnchanged
    /\ TableInfoAndDataUnchanged

ShowOrRemoveCreateTableForm ==
    /\ FormOpen
    /\ create_table_input' =
          IF Len(create_table_input.columns) = 0
          THEN [create_table_input EXCEPT !.columns = <<IdColumn>>]
          ELSE create_table_input
    /\ FormUnchanged
    /\ TableInfoAndDataUnchanged

\* the table was created: the form starts over
TableCreated ==
    /\ form_pc = "created"
    /\ create_table_input' = BTableInDefault
    /\ form_pc' = "form"
    /\ UNCHANGED <<database, tables_general_info>>
    /\ TableInfoAndDataUnchanged

HasPrimaryKey(column) ==
    \E k \in 1..Len(column.constraints) : IsPrimaryKey(column.constraints[k])

\* Tables::add_table: the input with the default key column when no column
\* carries a PrimaryKey
with_default_primary_key(table_in) ==
    IF ~\E i \in 1..Len(table_in.columns) : HasPrimaryKey(table_in.columns[i])
    THEN [table_in EXCEPT !.columns = Push(@, IdColumn)]
    ELSE table_in

\* Repository::create_table: the names of the PRIMARY KEY (...) clause, one
\* per PrimaryKey marker
primary_key_columns(table_in) ==
    LET names == [i \in 1..Len(table_in.columns) |->
                     LET column == table_in.columns[i]
                         markers == SelectSeq(column.constraints, IsPrimaryKey)
                     IN [k \in 1..Len(markers) |-> column.name]]
        Flatten[i \in 0..Len(names)] ==
            IF i = 0 THEN <<>> ELSE Flatten[i - 1] \o names[i]
    IN Flatten[Len(names)]

\* the database accepts the CREATE TABLE statement of Repository::create_table
CreateTableOk(table_in, db) ==
    LET columns == table_in.columns
    IN /\ table_in.table_name # ""
       /\ \A t \in db : t.table_name # table_in.table_name
       /\ \A i \in 1..Len(columns) : columns[i].name # ""
       /\ \A i, j \in 1..Len(columns) : columns[i].name = columns[j].name => i = j
       /\ NoDuplicates(primary_key_columns(table_in))
       /\ \A i \in 1..Len(columns) : \A k \in 1..Len(columns[i].constraints) :
             LET constraint == columns[i].constraints[k]
             IN IsForeignKey(constraint) =>
                   \E t \in db :
                      /\ t.table_name = constraint[2]
                      /\ primary_key_columns(t) = <<constraint[3]>>
                      /\ \E j \in 1..Len(t.columns) :
                            /\ t.columns[j].name = constraint[3]
                            /\ t.columns[j].datatype = columns[i].datatype

\* Repository::get_general_tables_info: a row per table of the database
get_general_tables_info(db) ==
    {[table_name |-> t.table_name,
      column_names |-> [i \in 1..Len(t.columns) |-> t.columns[i].name],
      data_types |-> [i \in 1..Len(t.columns) |-> t.columns[i].datatype]] : t \in db}

\* Tables::add_table on the input the form submits; the statement failing,
\* unwrap() panics
AddTable ==
    /\ form_pc = "form"
    /\ LET table_in == with_default_primary_key(create_table_input)
       IN IF CreateTableOk(table_in, database)
          THEN /\ database' = database \cup {table_in}
               /\ tables_general_info' = get_general_tables_info(database')
               /\ form_pc' = "created"
          ELSE /\ form_pc' = "panicked"
               /\ UNCHANGED <<database, tables_general_info>>
    /\ UNCHANGED create_table_input
    /\ TableInfoAndDataUnchanged

NextForm ==
    \/ FormAddColumn
    \/ \E index \in 1..MaxFormColumns : FormRemoveColumn(index)
    \/ \E index \in 1..MaxFormColumns, input \in FormColumnNames :
          UpdateColumnName(index, input)
    \/ \E index \in 1..MaxFormColumns, input \in DataTypes :
          UpdateColumnType(index, input)
    \/ \E index \in 1..MaxFormColumns : SetOrRemovePrimaryKey(index)
    \/ \E index \in 1..MaxFormColumns, r \in FormReferences :
          FormAddForeignKey(index, r[1], r[2])
    \/ \E index \in 1..MaxFormColumns : FormRemoveForeignKey(index)
    \/ \E input \in FormTableNames : UpdateTableName(input)
    \/ ShowOrRemoveCreateTableForm
    \/ TableCreated
    \/ AddTable

InitForm ==
    /\ create_table_input = BTableInDefault
    /\ database = {UsersTable}
    /\ tables_general_info = get_general_tables_info({UsersTable})
    /\ form_pc = "form"

(***************************************************************************)
(* Initial state: TableInfo::new followed by set_table_info on the         *)
(* default table.                                                          *)
(***************************************************************************)
InitData ==
    /\ rows = {}
    /\ data_txn = {}
    /\ data_events = <<>>
    /\ data_log = <<>>
    /\ data_pc = "idle"

Init ==
    /\ recording = FALSE
    /\ folded = <<>>
    /\ trail = <<>>
    /\ InitData
    /\ InitForm
    /\ catalog = DefaultTable
    /\ table_name = "users"
    /\ columns_info = set_table_info(DefaultTable, "users")
    /\ table_change_events = <<>>
    /\ pc = "idle"
    /\ txn = DefaultTable
    /\ queries = <<>>
    /\ res = "none"
    /\ before = DefaultTable
    /\ batch = <<>>
    /\ lit = DefaultTable
    /\ edits = 0
    /\ applicable \in BOOLEAN

(***************************************************************************)
(* TableInfo::add_table_change_event.                                      *)
(***************************************************************************)
\* The caller of a session either issues any event at all, or only events
\* applicable to the schema as edited so far; lit follows the literal replay
\* of the latter.
Edit(e) ==
    /\ pc = "idle"
    /\ IF applicable
       THEN /\ edits < MaxEdits
            /\ Applicable(e, lit)
            /\ lit' = Literal(e, lit)
            /\ edits' = edits + 1
       ELSE /\ ~recording => Len(table_change_events) < MaxEvents
            /\ UNCHANGED <<lit, edits>>
    /\ IF recording
       THEN /\ Len(folded) < MaxFolded
            /\ folded' = Append(folded, e)
            /\ trail' = Append(trail, table_change_events)
       ELSE UNCHANGED <<folded, trail>>
    /\ table_change_events' = add_table_change_event(table_change_events, e)
    /\ UNCHANGED <<table_name, columns_info, catalog, pc, txn, queries, res,
                   before, batch, applicable, recording>>
    /\ UNCHANGED <<data_vars, form_vars>>

(***************************************************************************)
(* TableInfo::alter_table, and Repository::alter_table inside it.          *)
(***************************************************************************)
\* nothing pending: the repository is not called
AlterTableSkip ==
    /\ pc = "idle"
    /\ table_change_events = <<>>
    /\ pc' = "refresh"
    /\ res' = "none"
    /\ UNCHANGED <<table_name, columns_info, table_change_events, catalog, txn,
                   queries, before, batch, lit, edits, applicable>>
    /\ UNCHANGED <<engine_vars, data_vars, form_vars>>

\* pool.begin() succeeds and the statement list is compiled
AlterTableBegin ==
    /\ pc = "idle"
    /\ table_change_events # <<>>
    /\ LET qs == CompileQueries(catalog, table_name, table_change_events,
                                primary_key_column_names(columns_info))
       IN /\ queries' = qs
          /\ batch' = qs
    /\ txn' = catalog
    /\ before' = catalog
    /\ pc' = "exec"
    /\ res' = "none"
    /\ UNCHANGED <<table_name, columns_info, table_change_events, catalog, lit, edits, applicable>>
    /\ UNCHANGED <<engine_vars, data_vars, form_vars>>

\* pool.begin() fails: Err before anything is compiled
AlterTableBeginFail ==
    /\ pc = "idle"
    /\ table_change_events # <<>>
    /\ pc' = "refresh"
    /\ res' = "Err"
    /\ before' = catalog
    /\ batch' = <<>>
    /\ UNCHANGED <<table_name, columns_info, table_change_events, catalog, txn,
                   queries, lit, edits, applicable>>
    /\ UNCHANGED <<engine_vars, data_vars, form_vars>>

\* the compilation reaches the lookup of the primary-key constraint
looks_up_primary_key_constraint(tname, evs, initial_primary_key_column_names) ==
    LET st == CompileLoop([current_table_name |-> tname,
                           primary_key_columns |-> initial_primary_key_column_names,
                           run_drop |-> TRUE,
                           queries |-> <<>>], evs)
    IN initial_primary_key_column_names # st.primary_key_columns /\ st.run_drop

\* pool.begin() succeeds and get_primary_key_constraint fails: unwrap()
\* panics, the transaction is dropped, TableInfo::alter_table does not return
AlterTableLookupPanic ==
    /\ pc = "idle"
    /\ table_change_events # <<>>
    /\ looks_up_primary_key_constraint(table_name, table_change_events,
                                       primary_key_column_names(columns_info))
    /\ pc' = "panicked"
    /\ res' = "none"
    /\ before' = catalog
    /\ batch' = <<>>
    /\ UNCHANGED <<table_name, columns_info, table_change_events, catalog, txn,
                   queries, lit, edits, applicable>>
    /\ UNCHANGED <<engine_vars, data_vars, form_vars>>

\* the next statement executes inside the transaction
ExecuteQuery ==
    /\ pc = "exec"
    /\ queries # <<>>
    /\ StmtOk(Head(queries), txn)
    /\ txn' = StmtEffect(Head(queries), txn)
    /\ queries' = Tail(queries)
    /\ UNCHANGED <<table_name, columns_info, table_change_events, catalog, pc, res,
                   before, batch, lit, edits, applicable>>
    /\ UNCHANGED <<engine_vars, data_vars, form_vars>>

\* a failing statement without the rollback: what executed so far stays
ExecuteQueryFailKeepingEffects ==
    /\ pc = "exec"
    /\ queries # <<>>
    /\ res' = "Err"
    /\ pc' = "refresh"
    /\ catalog' = txn
    /\ UNCHANGED <<table_name, columns_info, table_change_events, txn, queries,
                   before, batch, lit, edits, applicable>>
    /\ UNCHANGED <<engine_vars, data_vars, form_vars>>

\* the next statement fails (an error of the statement, or of the connection):
\* `?` returns, the transaction is dropped and so rolled back; queries keeps
\* the statements that did not execute, the failed one first
ExecuteQueryFail ==
    /\ pc = "exec"
    /\ queries # <<>>
    /\ res' = "Err"
    /\ pc' = "refresh"
    /\ txn' = catalog
    /\ UNCHANGED <<table_name, columns_info, table_change_events, catalog, queries,
                   before, batch, lit, edits, applicable>>
    /\ UNCHANGED <<engine_vars, data_vars, form_vars>>

\* transaction.commit() succeeds
Commit ==
    /\ pc = "exec"
    /\ queries = <<>>
    /\ catalog' = txn
    /\ res' = "Ok"
    /\ pc' = "refresh"
    /\ UNCHANGED <<table_name, columns_info, table_change_events, txn, queries,
                   before, batch, lit, edits, applicable>>
    /\ UNCHANGED <<engine_vars, data_vars, form_vars>>

\* transaction.commit() fails
CommitFail ==
    /\ pc = "exec"
    /\ queries = <<>>
    /\ res' = "Err"
    /\ pc' = "refresh"
    /\ txn' = catalog
    /\ UNCHANGED <<table_name, columns_info, table_change_events, catalog, queries,
                   before, batch, lit, edits, applicable>>
    /\ UNCHANGED <<engine_vars, data_vars, form_vars>>

\* the table name after the loop over the events: the last ChangeTableName's
updated_table_name(evs, tname) ==
    LET idx == {i \in 1..Len(evs) : evs[i].kind = "ChangeTableName"}
    IN IF idx = {} THEN tname
       ELSE evs[CHOOSE i \in idx : \A j \in idx : j <= i].arg

\* the rest of TableInfo::alter_table with the snapshot fetched before the
\* table name is updated
AlterTableRefreshBeforeRename ==
    /\ pc = "refresh"
    /\ table_name' = updated_table_name(table_change_events, table_name)
    /\ table_change_events' = <<>>
    /\ columns_info' = set_table_info(catalog, table_name)
    /\ pc' = "done"
    /\ UNCHANGED <<catalog, txn, queries, res, before, batch, lit, edits, applicable>>
    /\ UNCHANGED <<engine_vars, data_vars, form_vars>>

\* the rest of TableInfo::alter_table, whatever the result was
AlterTableRefresh ==
    /\ pc = "refresh"
    /\ table_name' = updated_table_name(table_change_events, table_name)
    /\ table_change_events' = <<>>
    /\ columns_info' = set_table_info(catalog, table_name')
    /\ pc' = "done"
    /\ UNCHANGED <<catalog, txn, queries, res, before, batch, lit, edits, applicable>>
    /\ UNCHANGED <<engine_vars, data_vars, form_vars>>

AlterTable ==
    \/ AlterTableSkip
    \/ AlterTableBegin
    \/ AlterTableBeginFail
    \/ AlterTableLookupPanic
    \/ ExecuteQuery
    \/ ExecuteQueryFail
    \/ Commit
    \/ CommitFail
    \/ AlterTableRefresh

Next == (\E e \in Events : Edit(e)) \/ AlterTable

Spec == Init /\ [][Next]_vars

(***************************************************************************)
(* Commit after commit on the same table: when TableInfo::alter_table has  *)
(* returned, the caller goes on editing the schema as committed.           *)
(***************************************************************************)
NewSession ==
    /\ pc = "done"
    /\ pc' = "idle"
    /\ lit' = catalog
    /\ res' = "none"
    /\ before' = catalog
    /\ batch' = <<>>
    /\ queries' = <<>>
    /\ txn' = catalog
    /\ UNCHANGED <<table_name, columns_info, table_change_events, catalog, edits, applicable>>
    /\ UNCHANGED <<engine_vars, data_vars, form_vars>>

InitCommits == Init /\ applicable

NextCommits == (\E e \in Events : Edit(e)) \/ AlterTable \/ NewSession

\* sessions of applicable edits, MaxEdits edits in all
SpecCommits == InitCommits /\ [][NextCommits]_vars

(***************************************************************************)
(* Repository::update_table_data on a table keyed by one INTEGER column:   *)
(* the rows are their keys.  A row's key value comes as text, empty for a  *)
(* key the database is to generate.                                        *)
(***************************************************************************)
IntMax == 2 ^ (IntegerBits - 1) - 1
IntMin == 0 - 2 ^ (IntegerBits - 1)
Keys == IntMin..IntMax

\* a value as the events carry it: the text of an integer, or the empty text
Text(k) == <<k>>
EmptyText == <<>>
\* the integer a text is formatted into the statement as
Number(text) == text[1]

\* TableDataChangeEvents: key is the key the conditions select, value the
\* key column's value
InsertRow(v) == [kind |-> "InsertRow", key |-> EmptyText, value |-> v]
DeleteRow(k) == [kind |-> "DeleteRow", key |-> k, value |-> EmptyText]
ModifyRowColumnValue(k, v) == [kind |-> "ModifyRowColumnValue", key |-> k, value |-> v]

DataEvents ==
    {InsertRow(v) : v \in {Text(k) : k \in Keys} \cup {EmptyText}}
    \cup {DeleteRow(Text(k)) : k \in Keys}
    \cup {ModifyRowColumnValue(Text(k), Text(v)) : k \in Keys, v \in Keys}

DataBatches == UNION {[1..n -> DataEvents] : n \in 0..MaxBatch}

Max(S) == CHOOSE m \in S : \A x \in S : x <= m

\* the generated value computed over the committed rows
generated_value_committed(view) ==
    (IF rows = {} THEN 0 ELSE Max(rows)) + 1

\* (SELECT COALESCE(MAX(key), 0) + 1 FROM table), over the transaction's view
generated_value(view) ==
    (IF view = {} THEN 0 ELSE Max(view)) + 1

\* the key an InsertRow's statement inserts
InsertedKey(e, view) ==
    IF e.value = EmptyText THEN generated_value(view) ELSE Number(e.value)

\* the statement raises no error: no integer out of range, no duplicate key
DataStmtOk(e, view) ==
    CASE e.kind = "InsertRow" ->
           InsertedKey(e, view) \in Keys /\ InsertedKey(e, view) \notin view
      [] e.kind = "DeleteRow" -> TRUE
      [] e.kind = "ModifyRowColumnValue" ->
           \/ Number(e.key) \notin view
           \/ e.value = e.key
           \/ Number(e.value) \notin view

\* the transaction's view after the statement
DataStmtEffect(e, view) ==
    CASE e.kind = "InsertRow" -> view \cup {InsertedKey(e, view)}
      [] e.kind = "DeleteRow" -> view \ {Number(e.key)}
      [] e.kind = "ModifyRowColumnValue" ->
           IF Number(e.key) \in view
           THEN (view \ {Number(e.key)}) \cup {Number(e.value)}
           ELSE view

TableInfoUnchanged ==
    UNCHANGED <<table_name, columns_info, table_change_events, catalog, pc, txn,
                queries, res, before, batch, lit, edits, applicable, engine_vars,
                form_vars>>

\* pool.begin() succeeds on a call with some list of events
UpdateTableDataBegin ==
    /\ data_pc = "idle"
    /\ \E evs \in DataBatches : data_events' = evs
    /\ data_txn' = rows
    /\ data_log' = <<>>
    /\ data_pc' = "exec"
    /\ UNCHANGED rows
    /\ TableInfoUnchanged

\* pool.begin() succeeds and get_primary_key_column_names fails: unwrap()
\* panics, the transaction is dropped
UpdateTableDataLookupPanic ==
    /\ data_pc = "idle"
    /\ data_pc' = "panicked"
    /\ UNCHANGED <<rows, data_txn, data_events, data_log>>
    /\ TableInfoUnchanged

\* the next event's statement executes inside the transaction
ExecuteDataEvent ==
    /\ data_pc = "exec"
    /\ data_events # <<>>
    /\ DataStmtOk(Head(data_events), data_txn)
    /\ data_txn' = DataStmtEffect(Head(data_events), data_txn)
    /\ data_log' = Append(data_log, [event |-> Head(data_events),
                                     saw |-> data_txn,
                                     left |-> data_txn'])
    /\ data_events' = Tail(data_events)
    /\ UNCHANGED <<rows, data_pc>>
    /\ TableInfoUnchanged

\* the next event's statement fails (an error of the statement, or of the
\* connection): unwrap() panics, the transaction is dropped and rolled back
ExecuteDataEventPanic ==
    /\ data_pc = "exec"
    /\ data_events # <<>>
    /\ data_pc' = "panicked"
    /\ data_txn' = rows
    /\ UNCHANGED <<rows, data_events, data_log>>
    /\ TableInfoUnchanged

\* transaction.commit() succeeds
DataCommit ==
    /\ data_pc = "exec"
    /\ data_events = <<>>
    /\ rows' = data_txn
    /\ data_log' = <<>>
    /\ data_pc' = "idle"
    /\ UNCHANGED <<data_txn, data_events>>
    /\ TableInfoUnchanged

\* transaction.commit() fails: unwrap() panics
DataCommitPanic ==
    /\ data_pc = "exec"
    /\ data_events = <<>>
    /\ data_pc' = "panicked"
    /\ data_txn' = rows
    /\ UNCHANGED <<rows, data_events, data_log>>
    /\ TableInfoUnchanged

UpdateTableData ==
    \/ UpdateTableDataBegin
    \/ UpdateTableDataLookupPanic
    \/ ExecuteDataEvent
    \/ ExecuteDataEventPanic
    \/ DataCommit
    \/ DataCommitPanic

SpecData == Init /\ [][UpdateTableData]_vars

\* the create-table form and Tables::add_table on their own
SpecForm == Init /\ [][NextForm]_vars

(***************************************************************************)
(* The coalescing engine on its own: a session that keeps the history of   *)
(* what it folded in.  Its caller issues any events, unknown columns       *)
(* included, on the default table, or only events applicable to the schema *)
(* as edited so far, on the default table with or without a foreign key.   *)
(***************************************************************************)
InitEngine ==
    /\ recording = TRUE
    /\ folded = <<>>
    /\ trail = <<>>
    /\ InitData
    /\ InitForm
    /\ applicable \in BOOLEAN
    /\ catalog \in (IF applicable THEN {DefaultTable, ReferencingTable} ELSE {DefaultTable})
    /\ table_name = "users"
    /\ columns_info = set_table_info(catalog, "users")
    /\ table_change_events = <<>>
    /\ pc = "idle"
    /\ txn = catalog
    /\ queries = <<>>
    /\ res = "none"
    /\ before = catalog
    /\ batch = <<>>
    /\ lit = catalog
    /\ edits = 0

NextEngine == \E e \in EngineEvents : Edit(e)

SpecEngine == InitEngine /\ [][NextEngine]_vars



(***************************************************************************)
(* Properties.                                                             *)
(***************************************************************************)
\* what a commit of the pending list would leave in the catalog
Compiled ==
    ApplyBatch(CompileQueries(catalog, table_name, table_change_events,
                              primary_key_column_names(columns_info)),
               catalog)

\* C1: replay-equivalence.  After every edit of a session (each applicable to
\* the schema as edited so far), compiling the pending list and applying it
\* to the original snapshot gives the schema that applying every edit
\* literally, in order, gives.
C1_ReplayEquivalence ==
    (pc = "idle" /\ applicable) => Schema(Compiled) = Schema(lit)


Pending == table_change_events
Kinds(ks) == {i \in 1..Len(Pending) : Pending[i].kind \in ks}

\* C2: a failed commit leaves the pending list intact.  When the repository
\* returned an error, the rest of TableInfo::alter_table does not change
\* table_change_events.
C2_FailedCommitKeepsPending ==
    [][(pc = "refresh" /\ res = "Err") => table_change_events' = table_change_events]_vars

\* C3: commit atomicity.  While the batch executes the catalog is the one
\* before the call; when Repository::alter_table has returned, the catalog
\* holds every statement of the batch (Ok) or none (Err), wherever it failed.
C3_Atomicity ==
    /\ pc = "exec" => catalog = before
    /\ (pc = "refresh" /\ res = "Ok") =>
          RunAll(batch, before).ok /\ catalog = RunAll(batch, before).cat
    /\ (pc = "refresh" /\ res = "Err") => catalog = before

\* the second of at least three statements failed after the first executed
\* and changed the table
C3_Witness ==
    /\ pc = "refresh"
    /\ res = "Err"
    /\ Len(batch) >= 3
    /\ Len(queries) = Len(batch) - 1
    /\ StmtOk(batch[1], before)
    /\ StmtEffect(batch[1], before) # before
    /\ catalog = before

\* the column names of the snapshot the session started from
OriginalNames == {columns_info[i].name : i \in 1..Len(columns_info)}

\* C4: the pending list never holds AddColumn(c, _) and RemoveColumn(c) for
\* the same column name c (stated for the sessions of applicable edits).
C4_NoAddAndRemoveOfSameColumn ==
    applicable =>
        \A i \in Kinds({"AddColumn"}), j \in Kinds({"RemoveColumn"}) :
            Pending[i].col # Pending[j].col

\* C5: the pending list holds at most one ChangeTableName entry, whatever
\* events were folded in.
C5_AtMostOneChangeTableName ==
    Cardinality(Kinds({"ChangeTableName"})) <= 1

\* a table rename is pending behind other entries of a full pending list
C5_Witness ==
    /\ ~applicable
    /\ Len(Pending) = MaxEvents
    /\ Pending[Len(Pending)].kind = "ChangeTableName"
    /\ Pending[Len(Pending)].arg # table_name
    /\ Cardinality(Kinds({"ChangeTableName"})) = 1

\* C6 as claimed: the pending list holds at most one ChangeColumnDataType
\* entry per column name in every state add_table_change_event calls reach.
C6_AtMostOneTypeChangePerColumn ==
    \A i, j \in Kinds({"ChangeColumnDataType"}) :
        Pending[i].col = Pending[j].col => i = j

\* C6 amended: when every event is applicable to the schema as edited so far,
\* the pending list holds at most one ChangeColumnDataType entry per column
\* name.
C6_AtMostOneTypeChangePerColumnApplicable ==
    applicable => C6_AtMostOneTypeChangePerColumn

\* a type change re-keyed by a rename is pending with a second type change
C6_Witness ==
    /\ applicable
    /\ \E i, j \in Kinds({"ChangeColumnDataType"}), k \in Kinds({"ChangeColumnName"}) :
          /\ i # j
          /\ Pending[k].arg = Pending[i].col
          /\ Pending[i].col \notin OriginalNames

\* C7: the pending list holds at most one ChangeColumnName entry per target
\* name, and the source of every ChangeColumnName entry is a column name of
\* the original snapshot (stated for the sessions of applicable edits).
C7_OneRenamePerTargetFromOriginal ==
    applicable =>
        /\ \A i, j \in Kinds({"ChangeColumnName"}) :
              Pending[i].arg = Pending[j].arg => i = j
        /\ \A i \in Kinds({"ChangeColumnName"}) : Pending[i].col \in OriginalNames

\* C8: the pending list holds no two equal entries, no AddPrimaryKey(c) with
\* RemovePrimaryKey(c), no AddForeignKey(c, ..) with RemoveForeignKey(c), and
\* no two AddForeignKey entries for one column (stated for the sessions of
\* applicable edits).
C8_NoContradictoryOrRedundantEntries ==
    applicable =>
        /\ \A i, j \in 1..Len(Pending) : Pending[i] = Pending[j] => i = j
        /\ \A i \in Kinds({"AddPrimaryKey"}), j \in Kinds({"RemovePrimaryKey"}) :
              Pending[i].col # Pending[j].col
        /\ \A i \in Kinds({"AddForeignKey"}), j \in Kinds({"RemoveForeignKey"}) :
              Pending[i].col # Pending[j].col
        /\ \A i, j \in Kinds({"AddForeignKey"}) :
              Pending[i].col = Pending[j].col => i = j

\* what a commit of the pending list without its i-th entry would leave
CompiledWithout(i) ==
    ApplyBatch(CompileQueries(catalog, table_name, RemoveAt(Pending, i),
                              primary_key_column_names(columns_info)),
               catalog)

\* C9: minimality.  After every applicable edit the pending list holds no
\* entry whose removal leaves the compiled end schema unchanged.
C9_Minimality ==
    (pc = "idle" /\ applicable) =>
        \A i \in 1..Len(Pending) : Schema(CompiledWithout(i)) # Schema(Compiled)

\* the statement list a commit of the pending list would run
PendingQueries ==
    CompileQueries(catalog, table_name, Pending, primary_key_column_names(columns_info))

PrimaryKeyOps == {"DROP CONSTRAINT", "ADD CONSTRAINT PRIMARY KEY"}

\* place of a statement kind in the order the claim gives
KindRank(op) ==
    CASE op = "RENAME TO" -> 1
      [] op = "ALTER COLUMN TYPE" -> 2
      [] op = "RENAME COLUMN" -> 3
      [] op = "ADD COLUMN" -> 4
      [] op = "DROP COLUMN" -> 5
      [] op = "ADD CONSTRAINT FOREIGN KEY" -> 6
      [] op = "DROP CONSTRAINT IF EXISTS" -> 7
      [] op \in PrimaryKeyOps -> 8

OpOf(kind) ==
    CASE kind = "ChangeTableName" -> "RENAME TO"
      [] kind = "ChangeColumnDataType" -> "ALTER COLUMN TYPE"
      [] kind = "ChangeColumnName" -> "RENAME COLUMN"
      [] kind = "AddColumn" -> "ADD COLUMN"
      [] kind = "RemoveColumn" -> "DROP COLUMN"
      [] kind = "AddForeignKey" -> "ADD CONSTRAINT FOREIGN KEY"
      [] kind = "RemoveForeignKey" -> "DROP CONSTRAINT IF EXISTS"

IsKeyEntry(e) == e.kind \in {"AddPrimaryKey", "RemovePrimaryKey"}
NotKeyEntry(e) == ~IsKeyEntry(e)
NotKeyStmt(q) == q.op \notin PrimaryKeyOps

LastEvent == folded[Len(folded)]
BeforeLast == trail[Len(trail)]
FirstOfPair == folded[Len(folded) - 1]
BeforePair == trail[Len(trail) - 1]

\* the column names an entry names
EntryNames(e) ==
    ({e.col} \cup (IF e.kind = "ChangeColumnName" THEN {e.arg} ELSE {})) \ {None}
NoEntryNaming(evs, cs) == \A i \in 1..Len(evs) : EntryNames(evs[i]) \cap cs = {}

\* C11: chained rename collapse.  From a pending list with no entry naming
\* a, b or c, ChangeColumnName(a, b) followed by ChangeColumnName(b, c)
\* leaves the list with the one entry ChangeColumnName(a, c) appended, and
\* leaves it as it was when c = a.
C11_ChainedRenameCollapse ==
    \A a, b, c \in EngineColumnNames :
        (/\ Len(folded) >= 2
         /\ FirstOfPair = ChangeColumnName(a, b)
         /\ LastEvent = ChangeColumnName(b, c)
         /\ NoEntryNaming(BeforePair, {a, b, c}))
        => Pending = (IF c = a THEN BeforePair
                      ELSE Push(BeforePair, ChangeColumnName(a, c)))

\* a chain over three names collapsed behind an entry of another column
C11_Witness ==
    /\ Len(folded) = 3
    /\ Len(BeforePair) = 1
    /\ BeforePair[1].kind = "RemoveColumn"
    /\ \E a, b, c \in EngineColumnNames :
          /\ Cardinality({a, b, c}) = 3
          /\ FirstOfPair = ChangeColumnName(a, b)
          /\ LastEvent = ChangeColumnName(b, c)
          /\ NoEntryNaming(BeforePair, {a, b, c})
          /\ Pending = Push(BeforePair, ChangeColumnName(a, c))

\* the pending list holds a primary-key entry for x
HasPrimaryKeyEntry(evs, x) ==
    \E i \in 1..Len(evs) :
        evs[i].kind \in {"AddPrimaryKey", "RemovePrimaryKey"} /\ evs[i].col = x

\* C12: primary-key cancel.  From a pending list with no primary-key entry
\* for x, AddPrimaryKey(x) then RemovePrimaryKey(x), and RemovePrimaryKey(x)
\* then AddPrimaryKey(x), leave the pending list as it was before the pair.
C12_PrimaryKeyCancel ==
    \A x \in EngineColumnNames :
        (/\ Len(folded) >= 2
         /\ <<FirstOfPair, LastEvent>> \in
               {<<AddPrimaryKey(x), RemovePrimaryKey(x)>>,
                <<RemovePrimaryKey(x), AddPrimaryKey(x)>>}
         /\ ~HasPrimaryKeyEntry(BeforePair, x))
        => Pending = BeforePair

\* the pair, remove first, cancelled behind a pending entry naming the column
C12_Witness ==
    /\ Len(folded) = 3
    /\ FirstOfPair = RemovePrimaryKey("id")
    /\ LastEvent = AddPrimaryKey("id")
    /\ BeforePair = <<ChangeColumnName("id", "email")>>
    /\ Pending = BeforePair

\* C13: AddColumn(c, t) immediately followed by RemoveColumn(c), from a
\* pending list with no entry naming c, leaves the list as it was before the
\* pair.
C13_AddThenRemoveColumn ==
    \A c \in EngineColumnNames, t \in DataTypes :
        (/\ Len(folded) >= 2
         /\ FirstOfPair = AddColumn(c, t)
         /\ LastEvent = RemoveColumn(c)
         /\ NoEntryNaming(BeforePair, {c}))
        => Pending = BeforePair

\* the pair cancelled behind a pending entry of another column
C13_Witness ==
    /\ Len(folded) = 3
    /\ FirstOfPair = AddColumn("email", "TEXT")
    /\ LastEvent = RemoveColumn("email")
    /\ BeforePair = <<ChangeColumnDataType("name", "INTEGER")>>
    /\ BeforeLast = <<ChangeColumnDataType("name", "INTEGER"), AddColumn("email", "TEXT")>>
    /\ Pending = BeforePair

\* C14: ChangeColumnName(c, c) leaves the pending list unchanged, whatever
\* is pending.
C14_RenameToOwnNameIsNoOp ==
    \A c \in EngineColumnNames :
        (Len(folded) >= 1 /\ LastEvent = ChangeColumnName(c, c))
        => Pending = BeforeLast

\* a column renamed to its own name while a type change and a primary-key
\* addition are pending for it
C14_Witness ==
    /\ Len(folded) = 3
    /\ LastEvent = ChangeColumnName("name", "name")
    /\ BeforeLast = <<ChangeColumnDataType("name", "INTEGER"), AddPrimaryKey("name")>>
    /\ Pending = BeforeLast

\* C15: after ChangeTableName(n) with n the session's table name, no
\* ChangeTableName entry is pending, whether or not one was pending before.
C15_RenameTableToOwnNameAddsNothing ==
    (Len(folded) >= 1 /\ LastEvent = ChangeTableName(table_name))
    => Kinds({"ChangeTableName"}) = {}

\* the type of column c in the snapshot, None when the snapshot has no such column
OriginalType(c) ==
    IF FindColumn(c) # 0 THEN columns_info[FindColumn(c)].datatype ELSE None

\* C16: ChangeColumnName(c, c') when AddColumn(c, t) is pending.  Afterwards
\* no AddColumn(c, _) is pending and no ChangeColumnName(c, c') was added; with no
\* RemoveColumn(c') pending before, AddColumn(c', t) is pending; otherwise
\* the RemoveColumn(c') is gone, with ChangeColumnDataType(c', t) pending
\* unless t is the original type of c'.
C16_RenameOfAddedColumn ==
    \A c, d \in EngineColumnNames :
        LET a == find_existing_add_column_event(BeforeLast, c)
            t == BeforeLast[a].arg
        IN (/\ Len(folded) >= 1
            /\ LastEvent = ChangeColumnName(c, d)
            /\ c # d
            /\ a # 0)
           => /\ find_existing_add_column_event(Pending, c) = 0
              /\ Cardinality({i \in Kinds({"ChangeColumnName"}) : Pending[i] = ChangeColumnName(c, d)})
                    <= Cardinality({i \in 1..Len(BeforeLast) :
                                      BeforeLast[i] = ChangeColumnName(c, d)})
              /\ IF find_existing_remove_column_event(BeforeLast, d) = 0
                 THEN AddColumn(d, t) \in Range(Pending)
                 ELSE /\ Cardinality({i \in Kinds({"RemoveColumn"}) : Pending[i].col = d})
                           < Cardinality({i \in 1..Len(BeforeLast) :
                                            BeforeLast[i] = RemoveColumn(d)})
                      /\ t # OriginalType(d) =>
                            ChangeColumnDataType(d, t) \in Range(Pending)

RECURSIVE IsSubsequence(_, _)
\* a is b with some entries deleted
IsSubsequence(a, b) ==
    IF a = <<>> THEN TRUE
    ELSE IF b = <<>> THEN FALSE
    ELSE IF Head(a) = Head(b) THEN IsSubsequence(Tail(a), Tail(b))
    ELSE IsSubsequence(a, Tail(b))

\* what a call did to the pending list: appended the event as it came,
\* dropped (the event, or entries it cancels), or replaced entries by
\* entries put at the end, growing the list by one at most
Outcome(old, new, e) ==
    IF new = Push(old, e) THEN "append"
    ELSE IF IsSubsequence(new, old) THEN "drop"
    ELSE IF /\ Len(new) <= Len(old) + 1
            /\ \E k \in 0..(Len(new) - 1) : IsSubsequence(SubSeq(new, 1, k), old)
    THEN "replace"
    ELSE "undefined"

\* C19: the coalescing engine is total.  After any sequence of events,
\* unknown columns included, the pending list is a list of events and the
\* outcome of the last call is one of append, replace and drop.
C19_EngineIsTotal ==
    /\ \A i \in 1..Len(Pending) : Pending[i] \in EngineEvents
    /\ Len(folded) >= 1 =>
          Outcome(BeforeLast, Pending, LastEvent) \in {"append", "replace", "drop"}

\* a rename of a column no snapshot knows re-keyed a pending type change and
\* a pending primary-key addition
C19_Witness ==
    /\ Len(folded) = 3
    /\ LastEvent = ChangeColumnName("phone", "email")
    /\ BeforeLast = <<ChangeColumnDataType("phone", "TEXT"), AddPrimaryKey("phone")>>
    /\ Outcome(BeforeLast, Pending, LastEvent) = "replace"
    /\ Len(Pending) = 3


(***************************************************************************)
(* Properties of the commit.                                               *)
(***************************************************************************)
\* the columns of the catalog's table as a snapshot holds them
CatalogColumns(cat) == [i \in 1..Len(cat.cols) |-> ToColumn(cat, cat.cols[i])]

\* C17: when TableInfo::alter_table completes after a successful commit, the
\* pending list is empty, table_name is the target of the pending
\* ChangeTableName entry if there was one and unchanged otherwise, and
\* columns_info holds the columns of that table in the catalog after the
\* commit.
C17_AfterSuccessfulCommit ==
    [][(pc = "refresh" /\ res = "Ok" /\ pc' = "done") =>
          /\ table_change_events' = <<>>
          /\ \A i \in Kinds({"ChangeTableName"}) : table_name' = Pending[i].arg
          /\ Kinds({"ChangeTableName"}) = {} => table_name' = table_name
          /\ catalog'.tname = table_name'
          /\ columns_info' = CatalogColumns(catalog')]_vars

\* a committed batch renamed the table and added a column, and the session
\* holds the new name and the three columns
C17_Witness ==
    /\ pc = "done"
    /\ res = "Ok"
    /\ table_name = "customers"
    /\ catalog.tname = "customers"
    /\ Len(columns_info) = 3
    /\ columns_info = CatalogColumns(catalog)
    /\ table_change_events = <<>>

\* the snapshot's primary-key columns, the list captured at session start
InitialKey == primary_key_column_names(columns_info)

\* s without the first occurrence of x
WithoutFirst(s, x) ==
    LET T(y) == y = x
    IN IF Position(s, T) # 0 THEN RemoveAt(s, Position(s, T)) ELSE s

RECURSIVE FoldKey(_, _, _)
\* the key list w with the primary-key entries of evs folded in, and with the
\* columns evs removes taken out when with_columns
FoldKey(evs, w, with_columns) ==
    IF evs = <<>> THEN w
    ELSE LET e == Head(evs)
             w1 == IF e.kind = "AddPrimaryKey" THEN Push(w, e.col)
                   ELSE IF e.kind = "RemovePrimaryKey" THEN WithoutFirst(w, e.col)
                   ELSE IF e.kind = "RemoveColumn" /\ with_columns THEN WithoutFirst(w, e.col)
                   ELSE w
         IN FoldKey(Tail(evs), w1, with_columns)

\* a pending RemoveColumn takes a column out of the key list as folded so far
KeyColumnRemoved ==
    \E i \in Kinds({"RemoveColumn"}) :
        Pending[i].col \in Range(FoldKey(SubSeq(Pending, 1, i - 1), InitialKey, TRUE))

\* the primary-key statements for working list w: the drop of the existing
\* constraint when dropping, then the addition over w when w is not empty
KeyStatements(w, dropping) ==
    IF w = InitialKey THEN <<>>
    ELSE (IF dropping /\ catalog.tname = table_name /\ catalog.pk.cols # <<>>
          THEN <<DropConstraint(updated_table_name(Pending, table_name), catalog.pk.conname)>>
          ELSE <<>>)
         \o (IF w # <<>>
             THEN <<AddConstraintPk(updated_table_name(Pending, table_name), w)>>
             ELSE <<>>)

\* the statements of the batch after its last statement that is no
\* primary-key statement
KeyTail ==
    LET qs == PendingQueries
        last == {i \in 1..Len(qs) : NotKeyStmt(qs[i])}
        k == IF last = {} THEN 0 ELSE CHOOSE i \in last : \A j \in last : j <= i
    IN SubSeq(qs, k + 1, Len(qs))

\* C18 as claimed: the batch has primary-key statements only if the initial
\* list with the pending AddPrimaryKey/RemovePrimaryKey entries folded in
\* differs from the initial list; then they are the drop of the existing
\* constraint if one exists and, if the list is not empty, one ADD
\* CONSTRAINT PRIMARY KEY over it; they come after all other statements.
C18_PrimaryKeyReconciliation ==
    pc = "idle" =>
        /\ KeyTail = KeyStatements(FoldKey(Pending, InitialKey, FALSE), TRUE)
        /\ Len(SelectSeq(PendingQueries, NotKeyStmt)) = Len(PendingQueries) - Len(KeyTail)

\* C18 amended: the working list also loses the columns that pending
\* RemoveColumn entries remove, and the drop of the existing constraint is
\* emitted only if no pending RemoveColumn took a column out of the working
\* list (the column drop removes the constraint).
C18_PrimaryKeyReconciliationWithRemovedColumns ==
    pc = "idle" =>
        /\ KeyTail = KeyStatements(FoldKey(Pending, InitialKey, TRUE), ~KeyColumnRemoved)
        /\ Len(SelectSeq(PendingQueries, NotKeyStmt)) = Len(PendingQueries) - Len(KeyTail)

\* the key column is removed and another column made the key: the batch ends
\* with the addition alone
C18_Witness ==
    /\ pc = "idle"
    /\ RemoveColumn("id") \in Range(Pending)
    /\ AddPrimaryKey("name") \in Range(Pending)
    /\ KeyColumnRemoved
    /\ KeyTail = <<AddConstraintPk(table_name, <<"name">>)>>
    /\ Len(PendingQueries) >= 2


(***************************************************************************)
(* Properties of the data change executor.                                 *)
(***************************************************************************)
\* the key the claim gives an insert with an empty key value
ClaimedKey(view) == IF view = {} THEN 1 ELSE Max(view) + 1

IsGeneratingInsert(e) == e.kind = "InsertRow" /\ e.value = EmptyText

\* every executed InsertRow with an empty key value added the one row
\* keyed max + 1 over the rows it saw, rows of the same batch included
GeneratedKeysAreMaxPlusOne ==
    \A i \in 1..Len(data_log) :
        IsGeneratingInsert(data_log[i].event) =>
            /\ ClaimedKey(data_log[i].saw) \notin data_log[i].saw
            /\ data_log[i].left = data_log[i].saw \cup {ClaimedKey(data_log[i].saw)}

\* an InsertRow with an empty key value is the next event to execute
GeneratingInsertIsNext ==
    /\ data_pc = "exec"
    /\ data_events # <<>>
    /\ IsGeneratingInsert(Head(data_events))

\* C20 as claimed: an InsertRow with an empty value for the INTEGER key
\* column inserts a row keyed max(existing keys) + 1, 1 for an empty table,
\* rows inserted earlier in the batch counting as existing: the key is a
\* value of the column, and the rows of every executed insert are the rows
\* it saw and that key.
C20_GeneratedKey ==
    /\ GeneratedKeysAreMaxPlusOne
    /\ GeneratingInsertIsNext => ClaimedKey(data_txn) \in Keys

\* C20 amended: the same while the largest existing key is below the
\* largest INTEGER; when it is the largest INTEGER the statement fails with
\* an integer out of range and inserts no row.
C20_GeneratedKeyBelowIntMax ==
    /\ GeneratedKeysAreMaxPlusOne
    /\ GeneratingInsertIsNext =>
          IF data_txn = {} \/ Max(data_txn) < IntMax
          THEN DataStmtOk(Head(data_events), data_txn)
          ELSE ~DataStmtOk(Head(data_events), data_txn)

\* a key was generated behind a row the same batch inserted above every
\* committed row
C20_Witness ==
    /\ Len(data_log) = 2
    /\ rows # {}
    /\ data_log[1].event.kind = "InsertRow"
    /\ data_log[1].event.value # EmptyText
    /\ Number(data_log[1].event.value) > Max(rows)
    /\ IsGeneratingInsert(data_log[2].event)
    /\ data_log[2].left = data_log[2].saw \cup {Number(data_log[1].event.value) + 1}
    /\ data_txn = data_log[2].left

(***************************************************************************)
(* Properties of the executors' error handling.                            *)
(***************************************************************************)
\* C21: every failure of a statement in Repository::alter_table or
\* Repository::update_table_data, and every failure of a catalog lookup they
\* perform, is returned to the caller as an error value; neither executor
\* panics.
C21_ExecutorsNeverPanic == pc # "panicked" /\ data_pc # "panicked"

(***************************************************************************)
(* Properties of commit after commit.                                      *)
(***************************************************************************)
\* C22: a foreign key added to column c by a committed AddForeignKey is
\* removed by a later RemoveForeignKey(c), whatever was committed in
\* between, renames of the table or of the column included.  When a commit
\* of a list that adds no foreign key succeeded (the foreign keys are those
\* of earlier commits), a column that a RemoveForeignKey entry of the list
\* names, and that no later entry names, has no foreign key.
C22_RemoveForeignKeyRemoves ==
    (pc = "refresh" /\ res = "Ok" /\ Kinds({"AddForeignKey"}) = {}) =>
       \A i \in 1..Len(Pending) :
          (/\ Pending[i].kind = "RemoveForeignKey"
           /\ Pending[i].col \in ColNames(catalog)
           /\ \A j \in (i + 1)..Len(Pending) : Pending[i].col \notin EntryNames(Pending[j]))
          => ~HasFk(catalog, Pending[i].col)

(***************************************************************************)
(* Properties of single events of the coalescing engine.                   *)
(***************************************************************************)
\* the entries of a kind that name column c, by position
EntriesOf(evs, kind, c) == {i \in 1..Len(evs) : evs[i].kind = kind /\ evs[i].col = c}
HasEntry(evs, kind, c) == EntriesOf(evs, kind, c) # {}
FirstEntry(evs, kind, c) ==
    CHOOSE i \in EntriesOf(evs, kind, c) : \A j \in EntriesOf(evs, kind, c) : i <= j
WithoutFirstEntry(evs, kind, c) == RemoveAt(evs, FirstEntry(evs, kind, c))

\* the names column c had in the catalog: c itself, or the source of a
\* pending rename to c
CatalogNames(evs, c) ==
    {c} \cup {evs[i].col : i \in {j \in 1..Len(evs) :
                                    evs[j].kind = "ChangeColumnName" /\ evs[j].arg = c}}

\* C23: AddForeignKey(c, rt, rc) when RemoveForeignKey(c) is pending.  The
\* RemoveForeignKey entry is dropped with nothing appended only if the
\* catalog's foreign key on c references (rt, rc); otherwise
\* AddForeignKey(c, rt, rc) is pending afterwards.  Stated for the sessions
\* of applicable events alone.
C23_AddForeignKeyAfterRemove ==
    \A c \in EngineColumnNames, r \in References :
        (/\ applicable
         /\ Len(folded) >= 1
         /\ LastEvent = AddForeignKey(c, r)
         /\ HasEntry(BeforeLast, "RemoveForeignKey", c)
         /\ ~HasEntry(BeforeLast, "AddForeignKey", c))
        => IF \E fk \in catalog.fks : fk.col \in CatalogNames(BeforeLast, c) /\ fk.ref = r
           THEN Pending = WithoutFirstEntry(BeforeLast, "RemoveForeignKey", c)
           ELSE AddForeignKey(c, r) \in Range(Pending)

CurrentOriginalType(evs, c) ==
    LET sources == CatalogNames(evs, c) \ {c}
    IN IF sources # {} THEN OriginalType(CHOOSE o \in sources : TRUE) ELSE OriginalType(c)

\* C27: ChangeColumnType(c, t) when ChangeColumnType(c, _) is pending.  If t
\* is the catalog type of the column now named c - also when c is the target
\* of a pending rename - the entry is dropped and nothing is appended;
\* otherwise the entry is replaced by ChangeColumnType(c, t).  Stated for
\* the sessions of applicable events alone.
C27_TypeChangeAfterTypeChange ==
    \A c \in EngineColumnNames, t \in DataTypes :
        (/\ applicable
         /\ Len(folded) >= 1
         /\ LastEvent = ChangeColumnDataType(c, t)
         /\ HasEntry(BeforeLast, "ChangeColumnDataType", c))
        => Pending =
              IF t = CurrentOriginalType(BeforeLast, c)
              THEN WithoutFirstEntry(BeforeLast, "ChangeColumnDataType", c)
              ELSE Push(WithoutFirstEntry(BeforeLast, "ChangeColumnDataType", c),
                        ChangeColumnDataType(c, t))

C29_RemoveOfRenamedColumn ==
    \A orig \in EngineColumnNames, c \in EngineColumnNames :
        (/\ applicable
         /\ Len(folded) >= 1
         /\ LastEvent = RemoveColumn(c)
         /\ orig # c
         /\ ChangeColumnName(orig, c) \in Range(BeforeLast))
        => /\ ChangeColumnName(orig, c) \notin Range(Pending)
           /\ RemoveColumn(orig) \in Range(Pending)
           /\ Cardinality(EntriesOf(Pending, "RemoveColumn", c))
                 <= Cardinality(EntriesOf(BeforeLast, "RemoveColumn", c))

\* C30: after RemoveColumn(c) is folded in, no pending AddColumn,
\* ChangeColumnType, AddPrimaryKey or AddForeignKey entry names c, in every
\* state reachable by events applicable to the schema as edited so far.
C30_RemovedColumnCarriesNothing ==
    \A c \in EngineColumnNames :
        (applicable /\ Len(folded) >= 1 /\ LastEvent = RemoveColumn(c))
        => \A i \in 1..Len(Pending) :
              Pending[i].kind \in {"AddColumn", "ChangeColumnDataType",
                                   "AddPrimaryKey", "AddForeignKey"}
              => Pending[i].col # c

\* a column removed while a primary-key addition and a type change are
\* pending for it
C30_Witness ==
    /\ applicable
    /\ Len(folded) = 3
    /\ LastEvent = RemoveColumn("name")
    /\ BeforeLast = <<AddPrimaryKey("name"), ChangeColumnDataType("name", "INTEGER")>>
    /\ Pending = <<RemoveColumn("name")>>

RelatedNames ==
    EntryNames(LastEvent)
    \cup UNION {EntryNames(BeforeLast[i]) :
                  i \in {j \in 1..Len(BeforeLast) :
                           EntryNames(BeforeLast[j]) \cap EntryNames(LastEvent) # {}}}
Related(e) ==
    IF LastEvent.kind = "ChangeTableName"
    THEN e.kind = "ChangeTableName"
    ELSE EntryNames(e) \cap RelatedNames # {}
Unrelated(e) == ~Related(e)

\* C32: order preservation.  Every add_table_change_event call keeps the
\* relative order of the pending entries it does not remove or replace, and
\* an entry it appends, replaces or re-keys is placed at the end: the
\* entries the event has nothing to do with are all kept, in their order,
\* and the list afterwards is entries kept from the list before, in their
\* order, followed by entries the event has to do with.
C32_OrderPreservation ==
    Len(folded) >= 1 =>
       /\ SelectSeq(Pending, Unrelated) = SelectSeq(BeforeLast, Unrelated)
       /\ \E k \in 0..Len(Pending) :
             /\ IsSubsequence(SubSeq(Pending, 1, k), BeforeLast)
             /\ \A i \in (k + 1)..Len(Pending) : Related(Pending[i])

\* a rename re-keys the type change in front of an entry of another column:
\* that entry comes first afterwards
C32_Witness ==
    /\ Len(folded) = 3
    /\ LastEvent = ChangeColumnName("name", "email")
    /\ BeforeLast = <<ChangeColumnDataType("name", "INTEGER"), AddPrimaryKey("id")>>
    /\ Pending = <<AddPrimaryKey("id"),
                   ChangeColumnDataType("email", "INTEGER"),
                   ChangeColumnName("name", "email")>>

\* C35: after RenameColumn(c, c') with c # c' is folded in, no pending
\* AddForeignKey, AddPrimaryKey or ChangeColumnType entry names the old
\* name c.  Stated for the sessions of applicable events alone.
C35_RenameLeavesNoOldName ==
    \A c, d \in EngineColumnNames :
        (applicable /\ Len(folded) >= 1 /\ LastEvent = ChangeColumnName(c, d) /\ c # d)
        => \A i \in 1..Len(Pending) :
              Pending[i].kind \in {"AddForeignKey", "AddPrimaryKey", "ChangeColumnDataType"}
              => Pending[i].col # c

\* C36: an AddColumn event is never silently discarded: the call does not
\* leave the pending list exactly as it was.  Stated for the sessions of
\* applicable events alone, where the one edit that makes the schema as
\* edited so far longer by a column is AddColumn.
C36_AddColumnIsNeverDiscarded ==
    [][(/\ applicable
        /\ pc = "idle"
        /\ edits' = edits + 1
        /\ Len(lit'.cols) > Len(lit.cols))
       => table_change_events' # table_change_events]_vars

(***************************************************************************)
(* Properties of the compiled statement list.                              *)
(***************************************************************************)
\* the table name a statement is addressed to, and the table name in the
\* constraint name the compiler builds for it (fk_<table>_<column>,
\* pk_<table>); a DROP CONSTRAINT carries the name the catalog gave
Addresses(q, tname) ==
    /\ q.table = tname
    /\ q.op \in {"ADD CONSTRAINT FOREIGN KEY", "DROP CONSTRAINT IF EXISTS",
                 "ADD CONSTRAINT PRIMARY KEY"} => q.con[2] = tname

\* C33: in the statement list compiled by Repository::alter_table, the
\* RENAME TO statement uses the session's table name as source, every
\* statement placed after it - foreign-key and primary-key statements and
\* their constraint names included - addresses the table by the new name,
\* and every statement placed before it addresses the table by the old name.
C33_RenameToSplitsTheBatch ==
    LET qs == PendingQueries IN
    \A r \in 1..Len(qs) :
       qs[r].op = "RENAME TO" =>
          /\ qs[r].table = table_name
          /\ \A i \in 1..Len(qs) :
                /\ i < r => Addresses(qs[i], table_name)
                /\ i > r => Addresses(qs[i], qs[r].arg)

\* a rename of the table between a foreign-key statement and the
\* primary-key statements
C33_Witness ==
    /\ Len(PendingQueries) = 4
    /\ PendingQueries[1].op = "ADD CONSTRAINT FOREIGN KEY"
    /\ PendingQueries[2].op = "RENAME TO"
    /\ PendingQueries[3].op = "DROP CONSTRAINT"
    /\ PendingQueries[4].op = "ADD CONSTRAINT PRIMARY KEY"
    /\ PendingQueries[4].con = <<"pk", "customers">>

\* the columns a statement names exist at its point of the batch, and the
\* column ADD COLUMN names does not
NamesOk(q, cat) ==
    CASE q.op \in {"ALTER COLUMN TYPE", "RENAME COLUMN", "DROP COLUMN",
                   "ADD CONSTRAINT FOREIGN KEY"} -> q.col \in ColNames(cat)
      [] q.op = "ADD COLUMN" -> q.col \notin ColNames(cat)
      [] q.op = "ADD CONSTRAINT PRIMARY KEY" -> Range(q.cols) \subseteq ColNames(cat)
      [] OTHER -> TRUE

RECURSIVE BatchNamesOk(_, _)
BatchNamesOk(qs, cat) ==
    IF qs = <<>> THEN TRUE
    ELSE NamesOk(Head(qs), cat) /\ BatchNamesOk(Tail(qs), StmtEffect(Head(qs), cat))

\* C34: well-formed batch.  For every edit sequence in which each event is
\* applicable to the schema as edited so far, the statement list compiled
\* from the pending list runs in its order against the original catalog
\* without a name error: each statement names only columns that exist at
\* that point of the batch, ADD COLUMN names a column that does not, and
\* the PRIMARY KEY statement lists only columns that exist at the end.
C34_WellFormedBatch ==
    (pc = "idle" /\ applicable) => BatchNamesOk(PendingQueries, catalog)

\* C37: whenever the compiled batch holds DROP COLUMN for a column that
\* belongs to the primary key at session start, it holds no explicit
\* DROP CONSTRAINT of the primary-key constraint.  Stated for the sessions
\* of applicable events alone.
C37_DroppedKeyColumnDropsNoConstraint ==
    (pc = "idle" /\ applicable) =>
        \A i \in 1..Len(PendingQueries) :
            (/\ PendingQueries[i].op = "DROP COLUMN"
             /\ PendingQueries[i].col \in Range(primary_key_column_names(columns_info)))
            => \A j \in 1..Len(PendingQueries) : PendingQueries[j].op # "DROP CONSTRAINT"

\* C38: when a commit of applicable edits succeeds, a column the committed
\* list holds a RemovePrimaryKey entry for is not part of the primary key
\* afterwards, and a column it holds an AddPrimaryKey entry for is.
C38_CommittedKeyEditsTakeEffect ==
    (applicable /\ pc = "refresh" /\ res = "Ok") =>
        \A i \in 1..Len(Pending) :
            /\ Pending[i].kind = "RemovePrimaryKey"
                  => Pending[i].col \notin Range(catalog.pk.cols)
            /\ Pending[i].kind = "AddPrimaryKey"
                  => Pending[i].col \in Range(catalog.pk.cols)

\* C39: after TableInfo::alter_table returns, with the commit succeeded or
\* failed, the session's table_name is the name the table has in the catalog.
C39_TableNameIsTheCatalogName ==
    (applicable /\ pc = "done") => table_name = catalog.tname

\* what log_query has written during the last call of Repository::alter_table:
\* every statement of the batch that executed, each logged right after it ran
AlterTableLog == SubSeq(batch, 1, Len(batch) - Len(queries))

\* C40: every statement alter_table writes to the audit sink belongs to a
\* transaction that commits: when the call has returned Err, and so rolled
\* back, it has logged nothing.  Stated for the sessions of applicable
\* events alone.
C40_AuditLogHoldsCommittedStatements ==
    (applicable /\ pc = "refresh" /\ res = "Err") => AlterTableLog = <<>>

(***************************************************************************)
(* Properties of the create-table form and of Tables::add_table.           *)
(***************************************************************************)
Markers(column, Test(_)) == Len(SelectSeq(column.constraints, Test))

InputHasPrimaryKey ==
    \E i \in 1..Len(create_table_input.columns) :
       HasPrimaryKey(create_table_input.columns[i])
Created(table_in) ==
    /\ table_in \in database
    /\ \E i \in 1..Len(table_in.columns) : HasPrimaryKey(table_in.columns[i])
    /\ \E g \in tables_general_info :
          /\ g.table_name = table_in.table_name
          /\ g.column_names = [i \in 1..Len(table_in.columns) |-> table_in.columns[i].name]

\* C25: Tables::add_table always creates a table with at least one
\* primary-key column: when no column of the input carries a PrimaryKey,
\* the column id INTEGER PRIMARY KEY is appended, otherwise the input's
\* columns are used unchanged; afterwards tables_general_info lists the new
\* table.  "Always" is read as: for every input the database would accept
\* as it stands.
C25_AddTableCreatesKeyedTable ==
    /\ form_pc = "created" =>
          Created([create_table_input EXCEPT !.columns =
                      IF InputHasPrimaryKey THEN @ ELSE Push(@, IdColumn)])
    /\ form_pc = "panicked" => ~CreateTableOk(create_table_input, database)

====
